---- MODULE Spec2Model ----
(***************************************************************************)
(* Model of the Ito card game (src/ito.py): the room store kept in         *)
(* games_state.json, the admin handlers of a Streamlit session (create     *)
(* room, distribute cards, verify order, reveal, continue, restart) and    *)
(* the per-session reveal state kept in st.session_state.card_reveal.      *)
(***************************************************************************)
EXTENDS Integers, Sequences, FiniteSets, TLC

\* ------------------------------------------------------------------ bounds
\* card_range = (1, 100) in the source; the upper end is scaled down so that
\* a room of two players exhausts the pool in its second round.
CardLo == 1
CardHi == 2
\* number_input limits of the creation form: players 2..8, rounds 1..10; the
\* upper ends are scaled down.
MinPlayers == 2
MaxPlayers == 2
MinRounds == 1
MaxRoundsInput == 2

\* Names typed into the creation form, room codes the generator can draw,
\* wall-clock readings, browser sessions.
Names == {"A", "B"}
Codes == {"ROOM01"}
Times == {"T1"}
Sessions == {"s1", "s2"}
Admin == "s1"

\* arguments the card functions are applied to on their own: names, the
\* pool's upper end, the longest player list and the highest round
FnNames == {"A", "B", "C"}
FnCardHi == 4
FnMaxPlayers == 2
FnMaxRound == 2

VARIABLES
    store,      \* contents of games_state.json: room code -> game record
    room,       \* per session: the "room" query parameter ("" = none)
    reveal,     \* per session: st.session_state.card_reveal, <<>> when absent
    pc,         \* per session: where its current script run stands
    loaded,     \* per session: the games dict its script run has loaded
    last,       \* the latest step: session, operation, input and outcome
    call        \* the latest call of the card functions: arguments and value

vars == <<store, room, reveal, pc, loaded, last, call>>

\* ----------------------------------------------------------------- helpers
Range(q) == {q[i] : i \in DOMAIN q}

Digit == <<"0", "1", "2", "3", "4", "5", "6", "7", "8", "9">>

\* str(n) for n >= 0, as used for the keys of cards_per_round and results
RECURSIVE str(_)
str(n) == IF n < 10 THEN Digit[n + 1] ELSE str(n \div 10) \o Digit[(n % 10) + 1]

RemoveAt(q, i) == SubSeq(q, 1, i - 1) \o SubSeq(q, i + 1, Len(q))

\* sorted(list): ascending, duplicates kept
RECURSIVE sorted(_)
sorted(q) ==
    IF q = <<>> THEN <<>>
    ELSE LET m == CHOOSE i \in 1..Len(q) : \A j \in 1..Len(q) : q[i] <= q[j]
         IN  <<q[m]>> \o sorted(RemoveAt(q, m))

\* all_cards: the hands of a round concatenated (cards.values(), extend)
RECURSIVE all_cards(_)
all_cards(cards) ==
    IF DOMAIN cards = {} THEN <<>>
    ELSE LET p == CHOOSE x \in DOMAIN cards : TRUE
         IN  cards[p] \o all_cards([x \in DOMAIN cards \ {p} |-> cards[x]])

\* dict assignment d[k] = v
Put(d, k, v) == [x \in DOMAIN d \cup {k} |-> IF x = k THEN v ELSE d[x]]

EmptyDict == [x \in {} |-> 0]

\* ---------------------------------------------------------- pure functions
\* slip: the rounds are counted from 0
create_new_game_round0(room_code, players, max_rounds, now) ==
    [room_code |-> room_code,
     players |-> players,
     current_round |-> 0,
     max_rounds |-> max_rounds,
     cards_per_round |-> EmptyDict,
     results |-> EmptyDict,
     created_at |-> now,
     status |-> "waiting"]

\* create_new_game(room_code, players, max_rounds)
create_new_game(room_code, players, max_rounds, now) ==
    [room_code |-> room_code,
     players |-> players,
     current_round |-> 1,
     max_rounds |-> max_rounds,
     cards_per_round |-> EmptyDict,
     results |-> EmptyDict,
     created_at |-> now,
     status |-> "waiting"]

\* distribute_cards returns None: more cards needed than the pool holds
distribute_fails(players, round_num, card_range) ==
    Len(players) * round_num > (card_range[2] - card_range[1] + 1)

\* random.sample(all_cards, n): every sequence of n distinct pool values
Samples(n, card_range) ==
    {q \in [1..n -> card_range[1]..card_range[2]] :
        \A i, j \in 1..n : i # j => q[i] # q[j]}

\* the block of the last occurrence of p in players, by a slicing rule
LastIndex(players, p) ==
    CHOOSE k \in 1..Len(players) :
        /\ players[k] = p
        /\ \A m \in 1..Len(players) : players[m] = p => m <= k

\* slip: the slice starts at i instead of i*round_num
distribute_cards_overlap(players, round_num, selected_cards) ==
    [p \in Range(players) |->
        SubSeq(selected_cards, LastIndex(players, p),
               LastIndex(players, p) + round_num - 1)]

\* slip: the slice ends one short
distribute_cards_short(players, round_num, selected_cards) ==
    [p \in Range(players) |->
        SubSeq(selected_cards, (LastIndex(players, p) - 1) * round_num + 1,
               LastIndex(players, p) * round_num - 1)]

\* player_cards[player] = selected_cards[i*round_num:(i+1)*round_num], in list
\* order, so a repeated name keeps the block of its last occurrence
distribute_cards(players, round_num, selected_cards) ==
    [p \in Range(players) |->
        SubSeq(selected_cards, (LastIndex(players, p) - 1) * round_num + 1,
               LastIndex(players, p) * round_num)]

\* slip: every earlier position is counted, whoever it names
TimesNamedBefore_all(player_selections, i) == i - 1

\* sum(1 for p in player_selections[:len(played_order)] if p == player) when
\* position i (1-based) is being resolved
TimesNamedBefore(player_selections, i) ==
    Cardinality({j \in 1..(i - 1) : player_selections[j] = player_selections[i]})

\* the index expression at position i raises IndexError
IndexPastHand(round_cards, player_selections, i) ==
    TimesNamedBefore(player_selections, i) >=
        Len(round_cards[player_selections[i]])

\* round_cards[player] raises KeyError
UnknownPlayer(round_cards, player_selections, i) ==
    player_selections[i] \notin DOMAIN round_cards

\* slip: the hand is indexed as dealt, not sorted
resolve_order_unsorted(round_cards, player_selections) ==
    [i \in 1..Len(player_selections) |->
        round_cards[player_selections[i]]
            [TimesNamedBefore(player_selections, i) + 1]]

\* the resolver loop of the verify handler, when no position raises
resolve_order(round_cards, player_selections) ==
    [i \in 1..Len(player_selections) |->
        sorted(round_cards[player_selections[i]])
            [TimesNamedBefore(player_selections, i) + 1]]

\* ------------------------------------------------------------------- state
NoReveal == <<>>
NoCall == [fn |-> "none"]

Init ==
    /\ store = EmptyDict
    /\ room = [s \in Sessions |-> ""]
    /\ reveal = [s \in Sessions |-> NoReveal]
    /\ pc = [s \in Sessions |-> "idle"]
    /\ loaded = [s \in Sessions |-> EmptyDict]
    /\ last = [s |-> "", op |-> "init", outcome |-> "ok", sel |-> <<>>]
    /\ call = NoCall

Report(s, op, outcome, sel) == [s |-> s, op |-> op, outcome |-> outcome, sel |-> sel]

\* the script run of session s ends (st.rerun(), or the end of the script)
EndRun(s) ==
    /\ pc' = [pc EXCEPT ![s] = "idle"]
    /\ loaded' = [loaded EXCEPT ![s] = EmptyDict]

\* load_games(): the whole file is read into the run's games dict
load_games(s) ==
    loaded' = [loaded EXCEPT ![s] = store]

\* save_games(games): the whole file is replaced by the run's games dict
save_games(games) ==
    store' = games

\* main(): a script run starts and loads the games
StartRun(s) ==
    /\ pc[s] = "idle"
    /\ load_games(s)
    /\ pc' = [pc EXCEPT ![s] = "run"]
    /\ last' = Report(s, "load", "ok", <<>>)
    /\ UNCHANGED <<store, room, reveal, call>>

\* a script run that only renders the page
Render(s) ==
    /\ pc[s] = "run"
    /\ EndRun(s)
    /\ last' = Report(s, "render", "ok", <<>>)
    /\ UNCHANGED <<store, room, reveal, call>>

\* main(): the run of session s is routed to the admin view of its room
InRoom(s) == pc[s] = "run" /\ room[s] # "" /\ room[s] \in DOMAIN loaded[s]

\* main(): the run of session s is routed to the main menu
InMenu(s) == pc[s] = "run" /\ ~(room[s] # "" /\ room[s] \in DOMAIN loaded[s])

\* a browser opens the application URL with ?room=code: a new session
Open(s, code) ==
    /\ pc[s] = "idle"
    /\ room' = [room EXCEPT ![s] = code]
    /\ reveal' = [reveal EXCEPT ![s] = NoReveal]
    /\ last' = Report(s, "open", "ok", <<>>)
    /\ UNCHANGED <<store, pc, loaded, call>>

\* show_create_room: the form is submitted and the games are loaded again;
\* the draw of a code ends only if some code is absent from the loaded games
CreateLoad(s, codes) ==
    /\ InMenu(s)
    /\ codes \ DOMAIN store # {}
    /\ load_games(s)
    /\ pc' = [pc EXCEPT ![s] = "create"]
    /\ last' = Report(s, "create_load", "ok", <<>>)
    /\ UNCHANGED <<store, room, reveal, call>>

\* slip: the drawn code is not compared with the loaded games
CreateRoom_any_code(s, player_names, max_rounds, room_code, now) ==
    /\ pc[s] = "create"
    /\ save_games(Put(loaded[s], room_code,
                      create_new_game(room_code, player_names, max_rounds, now)))
    /\ EndRun(s)
    /\ last' = Report(s, "create", "ok", <<>>)
    /\ UNCHANGED <<room, reveal, call>>

\* show_create_room: a code absent from the loaded games is drawn, the game is
\* created and the games are saved
CreateRoom(s, player_names, max_rounds, room_code, now) ==
    /\ pc[s] = "create"
    /\ room_code \notin DOMAIN loaded[s]
    /\ save_games(Put(loaded[s], room_code,
                      create_new_game(room_code, player_names, max_rounds, now)))
    /\ EndRun(s)
    /\ last' = Report(s, "create", "ok", <<>>)
    /\ UNCHANGED <<room, reveal, call>>

\* show_join_room: a room that is not finished is picked from the main menu
JoinRoom(s, code) ==
    /\ InMenu(s)
    /\ code \in {k \in DOMAIN loaded[s] : loaded[s][k].status # "finished"}
    /\ room' = [room EXCEPT ![s] = code]
    /\ EndRun(s)
    /\ last' = Report(s, "join", "ok", <<>>)
    /\ UNCHANGED <<store, reveal, call>>

\* slip: the result of distribute_cards is stored without the "if cards" test
Distribute_unchecked(s, card_range) ==
    /\ InRoom(s)
    /\ LET games == loaded[s]
           game == games[room[s]]
           current_round == game.current_round
       IN  /\ game.status = "waiting"
           /\ IF distribute_fails(game.players, current_round, card_range)
              THEN /\ save_games(Put(games, room[s],
                        [game EXCEPT
                           !.cards_per_round = Put(@, str(current_round), EmptyDict),
                           !.status = "playing"]))
                   /\ last' = Report(s, "distribute", "capacity_error", <<>>)
              ELSE \E selected_cards \in Samples(Len(game.players) * current_round,
                                              card_range) :
                   /\ save_games(Put(games, room[s],
                        [game EXCEPT
                           !.cards_per_round =
                               Put(@, str(current_round),
                                   distribute_cards(game.players, current_round,
                                                    selected_cards)),
                           !.status = "playing"]))
                   /\ last' = Report(s, "distribute", "ok", <<>>)
    /\ EndRun(s)
    /\ UNCHANGED <<room, reveal, call>>

\* slip: the button is also shown while the round is played
Distribute_any_status(s, card_range) ==
    /\ InRoom(s)
    /\ LET games == loaded[s]
           game == games[room[s]]
           current_round == game.current_round
       IN  /\ game.status \in {"waiting", "playing"}
           /\ IF distribute_fails(game.players, current_round, card_range)
              THEN /\ last' = Report(s, "distribute", "capacity_error", <<>>)
                   /\ UNCHANGED store
              ELSE \E selected_cards \in Samples(Len(game.players) * current_round,
                                              card_range) :
                   /\ save_games(Put(games, room[s],
                        [game EXCEPT
                           !.cards_per_round =
                               Put(@, str(current_round),
                                   distribute_cards(game.players, current_round,
                                                    selected_cards)),
                           !.status = "playing"]))
                   /\ last' = Report(s, "distribute", "ok", <<>>)
    /\ EndRun(s)
    /\ UNCHANGED <<room, reveal, call>>

\* show_admin_view, status waiting: "Distribuir Cartas para Rodada Atual"
Distribute(s, card_range) ==
    /\ InRoom(s)
    /\ LET games == loaded[s]
           game == games[room[s]]
           current_round == game.current_round
       IN  /\ game.status = "waiting"
           /\ IF distribute_fails(game.players, current_round, card_range)
              THEN /\ last' = Report(s, "distribute", "capacity_error", <<>>)
                   /\ UNCHANGED store
              ELSE \E selected_cards \in Samples(Len(game.players) * current_round,
                                              card_range) :
                   /\ save_games(Put(games, room[s],
                        [game EXCEPT
                           !.cards_per_round =
                               Put(@, str(current_round),
                                   distribute_cards(game.players, current_round,
                                                    selected_cards)),
                           !.status = "playing"]))
                   /\ last' = Report(s, "distribute", "ok", <<>>)
    /\ EndRun(s)
    /\ UNCHANGED <<room, reveal, call>>

\* the selections the verify form can submit: one name of the player list per
\* position, len(players) * current_round positions
Selections(game) ==
    [1..(Len(game.players) * game.current_round) -> Range(game.players)]

\* the fault the resolver loop raises, "" when it raises none
ResolveFault(game, player_selections) ==
    IF str(game.current_round) \notin DOMAIN game.cards_per_round THEN "KeyError"
    ELSE LET round_cards == game.cards_per_round[str(game.current_round)]
             bad == {i \in 1..Len(player_selections) :
                        \/ UnknownPlayer(round_cards, player_selections, i)
                        \/ IndexPastHand(round_cards, player_selections, i)}
         IN  IF bad = {} THEN ""
             ELSE LET i == CHOOSE k \in bad : \A m \in bad : k <= m
                  IN  IF UnknownPlayer(round_cards, player_selections, i)
                      THEN "KeyError" ELSE "IndexError"

\* slip: the played order is compared after sorting it
round_result_sorted(game, player_selections) ==
    LET cards == game.cards_per_round[str(game.current_round)]
        played_order == resolve_order(cards, player_selections)
        correct_order == sorted(all_cards(cards))
    IN  [played_order |-> played_order,
         correct_order |-> correct_order,
         is_correct |-> (sorted(played_order) = correct_order)]

\* the Round Result the verify handler builds
round_result(game, player_selections) ==
    LET cards == game.cards_per_round[str(game.current_round)]
        played_order == resolve_order(cards, player_selections)
        correct_order == sorted(all_cards(cards))
    IN  [played_order |-> played_order,
         correct_order |-> correct_order,
         is_correct |-> (played_order = correct_order)]

\* st.session_state.card_reveal as the verify handler creates it
new_reveal(game, result) ==
    [round |-> game.current_round,
     correct_order |-> result.correct_order,
     played_order |-> result.played_order,
     current_card |-> 0,
     is_correct |-> result.is_correct]

\* the verify handler's update of st.session_state.card_reveal
set_reveal(old, game, result) ==
    IF old = NoReveal THEN <<new_reveal(game, result)>> ELSE old

\* show_admin_view, status playing: "Verificar Ordem"
Submit(s) ==
    /\ InRoom(s)
    /\ loaded[s][room[s]].status = "playing"
    /\ \E player_selections \in Selections(loaded[s][room[s]]) :
       LET games == loaded[s]
           game == games[room[s]]
           fault == ResolveFault(game, player_selections)
       IN  IF fault # ""
           THEN \* not a ValueError: the exception leaves the handler
                /\ last' = Report(s, "submit", fault, player_selections)
                /\ UNCHANGED <<store, reveal>>
           ELSE LET result == round_result(game, player_selections)
                IN  /\ reveal' = [reveal EXCEPT ![s] = set_reveal(@, game, result)]
                    /\ save_games(Put(games, room[s],
                         [game EXCEPT !.results =
                             Put(@, str(game.current_round), result)]))
                    /\ last' = Report(s, "submit", "ok", player_selections)
    /\ EndRun(s)
    /\ UNCHANGED <<room, call>>

\* slip: the button is still shown when every card is revealed
CanReveal_inclusive(s) ==
    /\ InRoom(s)
    /\ loaded[s][room[s]].status = "playing"
    /\ reveal[s] # NoReveal
    /\ reveal[s][1].current_card <= Len(reveal[s][1].correct_order)

\* show_player_view: the cards shown to player_id, none when the round has no
\* hands or no hand of that player
player_cards(game, player_id) ==
    IF /\ game.status = "playing"
       /\ str(game.current_round) \in DOMAIN game.cards_per_round
       /\ player_id \in DOMAIN game.cards_per_round[str(game.current_round)]
    THEN <<sorted(game.cards_per_round[str(game.current_round)][player_id])>>
    ELSE <<>>

\* the reveal block shows the "Revelar Carta" button
CanReveal(s) ==
    /\ InRoom(s)
    /\ loaded[s][room[s]].status = "playing"
    /\ reveal[s] # NoReveal
    /\ reveal[s][1].current_card < Len(reveal[s][1].correct_order)

\* the reveal block shows the "Continuar" button
CanContinue(s) ==
    /\ InRoom(s)
    /\ loaded[s][room[s]].status = "playing"
    /\ reveal[s] # NoReveal
    /\ ~(reveal[s][1].current_card < Len(reveal[s][1].correct_order))

\* the terminal summary: the number of positions where the played card is the
\* correct one
correct_count(reveal_data) ==
    Cardinality({i \in 1..Len(reveal_data.played_order) :
                    /\ i <= Len(reveal_data.correct_order)
                    /\ reveal_data.played_order[i] =
                           reveal_data.correct_order[i]})

\* the terminal summary of a reveal state: success, or the count of matches
final_summary(reveal_data) ==
    [success |-> reveal_data.is_correct,
     correct_count |-> correct_count(reveal_data)]

\* slip: the index is written back as it was
reveal_next_same(r) == [r EXCEPT !.current_card = @]

\* the reveal state after "Revelar Carta"
reveal_next(r) == [r EXCEPT !.current_card = @ + 1]

\* "Revelar Carta da Posicao n"
RevealNext(s) ==
    /\ CanReveal(s)
    /\ reveal' = [reveal EXCEPT ![s] = <<reveal_next(@[1])>>]
    /\ EndRun(s)
    /\ last' = Report(s, "reveal", "ok", <<>>)
    /\ UNCHANGED <<store, room, call>>

\* slip: the last round is followed by one more round
advance_past(game) ==
    IF game.current_round <= game.max_rounds
    THEN [game EXCEPT !.current_round = @ + 1, !.status = "waiting"]
    ELSE [game EXCEPT !.status = "finished"]

\* the game after "Continuar": next round, or the end of the game
advance(game) ==
    IF game.current_round < game.max_rounds
    THEN [game EXCEPT !.current_round = @ + 1, !.status = "waiting"]
    ELSE [game EXCEPT !.status = "finished"]

\* "Continuar para Proxima Rodada"
Continue(s) ==
    /\ CanContinue(s)
    /\ reveal' = [reveal EXCEPT ![s] = NoReveal]
    /\ save_games(Put(loaded[s], room[s], advance(loaded[s][room[s]])))
    /\ EndRun(s)
    /\ last' = Report(s, "continue", "ok", <<>>)
    /\ UNCHANGED <<room, call>>

\* slip: the restart leaves the round number as it was
restarted_keeps_round(game) ==
    [game EXCEPT !.status = "waiting",
                 !.cards_per_round = EmptyDict,
                 !.results = EmptyDict]

\* slip: the restart leaves the results as they were
restarted_keeps_results(game) ==
    [game EXCEPT !.current_round = 1,
                 !.status = "waiting",
                 !.cards_per_round = EmptyDict]

\* slip: the restart leaves the status as it was
restarted_keeps_status(game) ==
    [game EXCEPT !.current_round = 1,
                 !.cards_per_round = EmptyDict,
                 !.results = EmptyDict]

\* the game after "Reiniciar Jogo"
restarted(game) ==
    [game EXCEPT !.current_round = 1,
                 !.status = "waiting",
                 !.cards_per_round = EmptyDict,
                 !.results = EmptyDict]

\* "Reiniciar Jogo"
Restart(s) ==
    /\ InRoom(s)
    /\ reveal' = [reveal EXCEPT ![s] = NoReveal]
    /\ save_games(Put(loaded[s], room[s], restarted(loaded[s][room[s]])))
    /\ EndRun(s)
    /\ last' = Report(s, "restart", "ok", <<>>)
    /\ UNCHANGED <<room, call>>

\* save_games(games) raises: open() fails and the file stays as it was, or the
\* write stops part-way and the file no longer parses, which load_games reads
\* as no games
save_games_fails ==
    store' \in {store, EmptyDict}

\* show_create_room: the write of the new game fails
CreateRoomStoreError(s, room_code) ==
    /\ pc[s] = "create"
    /\ room_code \notin DOMAIN loaded[s]
    /\ save_games_fails
    /\ EndRun(s)
    /\ last' = Report(s, "create", "store_error", <<>>)
    /\ UNCHANGED <<room, reveal, call>>

\* "Distribuir Cartas": the cards are dealt and the write fails
DistributeStoreError(s, card_range) ==
    /\ InRoom(s)
    /\ LET game == loaded[s][room[s]]
       IN  /\ game.status = "waiting"
           /\ ~distribute_fails(game.players, game.current_round, card_range)
    /\ save_games_fails
    /\ EndRun(s)
    /\ last' = Report(s, "distribute", "store_error", <<>>)
    /\ UNCHANGED <<room, reveal, call>>

\* "Verificar Ordem": the order resolves, card_reveal is set when absent, and
\* then the write fails
SubmitStoreError(s) ==
    /\ InRoom(s)
    /\ LET game == loaded[s][room[s]]
       IN  /\ game.status = "playing"
           /\ \E player_selections \in Selections(game) :
                 /\ ResolveFault(game, player_selections) = ""
                 /\ reveal' = [reveal EXCEPT ![s] =
                       set_reveal(@, game, round_result(game, player_selections))]
                 /\ last' = Report(s, "submit", "store_error", player_selections)
    /\ save_games_fails
    /\ EndRun(s)
    /\ UNCHANGED <<room, call>>

\* "Continuar para Proxima Rodada": card_reveal is deleted and then the write
\* fails
ContinueStoreError(s) ==
    /\ CanContinue(s)
    /\ reveal' = [reveal EXCEPT ![s] = NoReveal]
    /\ save_games_fails
    /\ EndRun(s)
    /\ last' = Report(s, "continue", "store_error", <<>>)
    /\ UNCHANGED <<room, call>>

\* "Reiniciar Jogo": card_reveal is deleted and then the write fails
RestartStoreError(s) ==
    /\ InRoom(s)
    /\ reveal' = [reveal EXCEPT ![s] = NoReveal]
    /\ save_games_fails
    /\ EndRun(s)
    /\ last' = Report(s, "restart", "store_error", <<>>)
    /\ UNCHANGED <<room, call>>

\* the handlers of a session whose write to the games file fails
Faults(s, codes) ==
        \/ \E code \in codes : CreateRoomStoreError(s, code)
        \/ DistributeStoreError(s, <<CardLo, CardHi>>)
        \/ SubmitStoreError(s)
        \/ ContinueStoreError(s)
        \/ RestartStoreError(s)

\* the forms of the main menu: the player lists and the numbers of rounds
\* that can be entered
Forms ==
    {<<pl, mr>> : pl \in UNION {[1..n -> Names] : n \in MinPlayers..MaxPlayers},
                  mr \in MinRounds..MaxRoundsInput}

\* the handlers of the menu and of the room that start a game, and the opening
\* of a URL; codes are the room codes that can be drawn and typed, forms the
\* inputs of the creation form
RoomMoves(s, codes, forms) ==
        \/ \E code \in codes \cup {""} : Open(s, code)
        \/ Render(s)
        \/ CreateLoad(s, codes)
        \/ \E form \in forms, code \in codes, now \in Times :
              CreateRoom(s, form[1], form[2], code, now)
        \/ \E code \in codes : JoinRoom(s, code)
        \/ Distribute(s, <<CardLo, CardHi>>)
        \/ Restart(s)

\* the handlers of a round that is being played
RoundMoves(s) ==
        \/ Submit(s)
        \/ RevealNext(s)
        \/ Continue(s)

\* the handlers a session can run after its script run has loaded the games,
\* and the opening of a URL
Moves(s, codes, forms) == RoomMoves(s, codes, forms) \/ RoundMoves(s)

\* the steps of one session
Step(s) == StartRun(s) \/ Moves(s, Codes, Forms)

\* one browser session administers the rooms: its script runs follow one
\* another
Next == Step(Admin)

Spec == Init /\ [][Next]_vars

\* several browser sessions: a script run loads the games and its handler
\* saves them in a later step, so the runs of different sessions interleave
NextAll == \E s \in Sessions : Step(s)

SpecAll == Init /\ [][NextAll]_vars

\* a script run that starts while no other run is between its load and its end
StartRunAlone(s) ==
    /\ \A t \in Sessions \ {s} : pc[t] = "idle"
    /\ StartRun(s)

\* several browser sessions whose script runs never overlap
NextSerial ==
    \E s \in Sessions : StartRunAlone(s) \/ Moves(s, Codes, Forms)

SpecSerial == Init /\ [][NextSerial]_vars

\* two rooms: the codes that generate_room_code draws in this specification,
\* and the one form entered
TwoCodes == {"ROOM01", "ROOM02"}

OneForm == {<<<<"A", "B">>, 1>>}

\* several browser sessions administer two rooms with interleaved script runs
NextRooms ==
    \E s \in Sessions : StartRun(s) \/ RoomMoves(s, TwoCodes, OneForm)

SpecRooms == Init /\ [][NextRooms]_vars

\* one browser session, and writes to the games file that can fail
NextFail == Step(Admin) \/ Faults(Admin, Codes)

SpecFail == Init /\ [][NextFail]_vars

\* "Verificar Ordem" with a submission that names every player of the room
\* exactly current_round times
SubmitBalanced(s) ==
    /\ Submit(s)
    /\ \A n \in Range(loaded[s][room[s]].players) :
          Cardinality({j \in 1..Len(last'.sel) : last'.sel[j] = n})
              = loaded[s][room[s]].current_round

\* one browser session that creates a room, joins it and plays it; no restart,
\* no new browser session
NextLive ==
        \/ StartRun(Admin)
        \/ Render(Admin)
        \/ CreateLoad(Admin, Codes)
        \/ \E form \in Forms, code \in Codes, now \in Times :
              CreateRoom(Admin, form[1], form[2], code, now)
        \/ \E code \in Codes : JoinRoom(Admin, code)
        \/ Distribute(Admin, <<CardLo, CardHi>>)
        \/ Submit(Admin)
        \/ RevealNext(Admin)
        \/ Continue(Admin)

\* the user keeps clicking: script runs keep starting, and a button that stays
\* on the page is pressed at last. A handler is enabled only in the step that
\* follows the load of its script run, so the button that stays enabled is a
\* step enabled again and again: strong fairness of the step
SpecLive ==
    /\ Init
    /\ [][NextLive]_vars
    /\ WF_vars(StartRun(Admin))
    /\ SF_vars(Distribute(Admin, <<CardLo, CardHi>>))
    /\ SF_vars(SubmitBalanced(Admin))
    /\ SF_vars(RevealNext(Admin))
    /\ SF_vars(Continue(Admin))

\* ------------------------------------------- the card functions on their own
\* a game whose round round_num is being played with the hands cards
playing_game(players, round_num, cards) ==
    [create_new_game("", players, round_num, "") EXCEPT
        !.current_round = round_num,
        !.cards_per_round = Put(EmptyDict, str(round_num), cards),
        !.status = "playing"]

InitCall ==
    /\ store = EmptyDict
    /\ room = [s \in Sessions |-> ""]
    /\ reveal = [s \in Sessions |-> NoReveal]
    /\ pc = [s \in Sessions |-> "idle"]
    /\ loaded = [s \in Sessions |-> EmptyDict]
    /\ last = [s |-> "", op |-> "init", outcome |-> "ok", sel |-> <<>>]
    /\ \E n \in MinPlayers..FnMaxPlayers, r \in 1..FnMaxRound :
         \E pl \in [1..n -> FnNames] :
            call = [fn |-> "args", players |-> pl, round_num |-> r]

\* cards = distribute_cards(players, round_num, card_range)
CallDistribute ==
    /\ call.fn = "args"
    /\ LET card_range == <<CardLo, FnCardHi>>
       IN  IF distribute_fails(call.players, call.round_num, card_range)
           THEN call' = [fn |-> "distribute_cards", players |-> call.players,
                         round_num |-> call.round_num, returned |-> FALSE]
           ELSE \E selected_cards \in
                     Samples(Len(call.players) * call.round_num, card_range) :
                call' = [fn |-> "distribute_cards", players |-> call.players,
                         round_num |-> call.round_num, returned |-> TRUE,
                         cards |-> distribute_cards(call.players, call.round_num,
                                                    selected_cards)]
    /\ UNCHANGED <<store, room, reveal, pc, loaded, last>>

\* the verify handler's resolver and result on the dealt hands
CallVerify ==
    /\ call.fn = "distribute_cards"
    /\ call.returned
    /\ LET game == playing_game(call.players, call.round_num, call.cards)
       IN  \E player_selections \in Selections(game) :
           LET fault == ResolveFault(game, player_selections)
           IN  call' = [fn |-> "verify", players |-> call.players,
                        round_num |-> call.round_num, cards |-> call.cards,
                        sel |-> player_selections, fault |-> fault,
                        result |-> IF fault = ""
                                   THEN <<round_result(game, player_selections)>>
                                   ELSE <<>>]
    /\ UNCHANGED <<store, room, reveal, pc, loaded, last>>

NextCall == CallDistribute \/ CallVerify

SpecCall == InitCall /\ [][NextCall]_vars

\* ------------------------------------------------ terms the claims are put in
UniqueNames(players) ==
    \A i, j \in DOMAIN players : i # j => players[i] # players[j]

\* the values of a set in ascending order
Ascending(S) ==
    [i \in 1..Cardinality(S) |->
        CHOOSE v \in S : Cardinality({w \in S : w < v}) = i - 1]

\* the values of all hands of a round
AllValues(cards) == UNION {Range(cards[n]) : n \in DOMAIN cards}

\* how often name n occurs among the first k selections
Occurrences(sel, n, k) == Cardinality({j \in 1..k : sel[j] = n})

\* walking the ascending values and naming the holder of each
WalkSelections(cards) ==
    [i \in 1..Cardinality(AllValues(cards)) |->
        CHOOSE n \in DOMAIN cards : Ascending(AllValues(cards))[i] \in Range(cards[n])]

\* ------------------------------------------------------------------ claims
\* C1: for a list of p >= 2 unique names and a round r >= 1 with p*r within
\* the pool, distribute_cards returns one hand per player, each of exactly r
\* cards, the hands pairwise disjoint, p*r values in all, all in the pool.
C1_DistributeCards ==
    (call.fn = "distribute_cards" /\ UniqueNames(call.players)
        /\ Len(call.players) * call.round_num <= FnCardHi - CardLo + 1) =>
    /\ call.returned
    /\ DOMAIN call.cards = Range(call.players)
    /\ Cardinality(DOMAIN call.cards) = Len(call.players)
    /\ \A n \in DOMAIN call.cards :
          /\ Len(call.cards[n]) = call.round_num
          /\ Cardinality(Range(call.cards[n])) = call.round_num
    /\ \A n, m \in DOMAIN call.cards :
          n # m => Range(call.cards[n]) \cap Range(call.cards[m]) = {}
    /\ Cardinality(AllValues(call.cards)) = Len(call.players) * call.round_num
    /\ AllValues(call.cards) \subseteq CardLo..FnCardHi

C1_Witness ==
    /\ call.fn = "distribute_cards"
    /\ call.returned
    /\ UniqueNames(call.players)
    /\ Len(call.players) = 2
    /\ call.round_num = 2

\* C3: the value resolved at position i is the element at index k of the
\* ascending hand of selections[i], k being the number of earlier positions
\* that name the same player; hands {A:[10,50], B:[20]} with [A,B,A] give
\* [10,20,50].
C3_ResolvedValue ==
    /\ resolve_order([n \in {"A", "B"} |-> IF n = "A" THEN <<10, 50>> ELSE <<20>>],
                     <<"A", "B", "A">>) = <<10, 20, 50>>
    /\ (call.fn = "verify" /\ call.fault = "") =>
          \A i \in 1..Len(call.sel) :
             LET hand == Range(call.cards[call.sel[i]])
                 k == Occurrences(call.sel, call.sel[i], i - 1)
             IN  /\ k < Cardinality(hand)
                 /\ call.result[1].played_order[i] = Ascending(hand)[k + 1]

C3_Witness ==
    /\ call.fn = "verify"
    /\ call.fault = ""
    /\ call.round_num = 2
    /\ \E i \in 1..Len(call.sel) :
          /\ Occurrences(call.sel, call.sel[i], i - 1) = 1
          /\ call.cards[call.sel[i]][1] > call.cards[call.sel[i]][2]

\* C4: with unique names, selections built by walking the correct order and
\* naming the holder of each value resolve to the correct order, and
\* is_correct is true.
C4_RoundTrip ==
    (call.fn = "verify" /\ UniqueNames(call.players)
        /\ call.sel = WalkSelections(call.cards)) =>
    /\ call.fault = ""
    /\ call.result[1].played_order = Ascending(AllValues(call.cards))
    /\ call.result[1].played_order = call.result[1].correct_order
    /\ call.result[1].is_correct = TRUE

C4_Witness ==
    /\ call.fn = "verify"
    /\ UniqueNames(call.players)
    /\ call.sel = WalkSelections(call.cards)
    /\ call.round_num = 2
    /\ \E i \in 1..(Len(call.sel) - 1) : call.sel[i] # call.sel[i + 1]

\* C6 as stated: every submission of p*r selections drawn from the player
\* list resolves without indexing past a hand.
C6_AnySubmissionResolves ==
    (call.fn = "verify" /\ UniqueNames(call.players)
        /\ Len(call.sel) = Len(call.players) * call.round_num
        /\ Range(call.sel) \subseteq Range(call.players)) =>
    call.fault # "IndexError"

\* C6 amended: a submission of p*r selections drawn from the player list in
\* which no name occurs more than current_round times never indexes past a
\* hand, and every position resolves to a card of the player it names.
C6_BalancedSubmissionResolves ==
    (call.fn = "verify"
        /\ Len(call.sel) = Len(call.players) * call.round_num
        /\ Range(call.sel) \subseteq Range(call.players)
        /\ \A n \in Range(call.sel) :
              Occurrences(call.sel, n, Len(call.sel)) <= call.round_num) =>
    /\ call.fault = ""
    /\ \A i \in 1..Len(call.sel) :
          call.result[1].played_order[i] \in Range(call.cards[call.sel[i]])

C6_Witness ==
    /\ call.fn = "verify"
    /\ call.round_num = 2
    /\ Len(call.players) = 2
    /\ \A n \in Range(call.players) :
          Occurrences(call.sel, n, Len(call.sel)) = 2
    /\ call.fault = ""

\* the persisted game of the room the latest step acted on
LastGame == store[room[last.s]]

\* C2: when players times current round exceeds the pool, distribute reports
\* an error and changes nothing: the Room Store (cards_per_round,
\* current_round, status) and the session's state stay as they were.
C2_CapacityErrorMutatesNothing ==
    [][\A s \in Sessions :
          (/\ last'.op = "distribute"
           /\ last'.s = s
           /\ Len(store[room[s]].players) * store[room[s]].current_round
                  > CardHi - CardLo + 1)
          => /\ last'.outcome = "capacity_error"
             /\ store' = store
             /\ store[room[s]].status = "waiting"
             /\ reveal' = reveal]_vars

C2_Witness ==
    /\ last.op = "distribute"
    /\ last.outcome = "capacity_error"
    /\ LastGame.status = "waiting"
    /\ LastGame.current_round = 2
    /\ UniqueNames(LastGame.players)

\* C5: every stored result of a round r has correct_order equal to the
\* ascending union of the hands stored for r in the same record, and
\* is_correct true exactly when played_order equals correct_order position by
\* position over the full length.
C5_StoredResults ==
    \A code \in DOMAIN store :
        \A k \in DOMAIN store[code].results :
            LET result == store[code].results[k]
            IN  /\ k \in DOMAIN store[code].cards_per_round
                /\ result.correct_order =
                       Ascending(AllValues(store[code].cards_per_round[k]))
                /\ result.is_correct <=>
                      /\ Len(result.played_order) = Len(result.correct_order)
                      /\ \A i \in 1..Len(result.correct_order) :
                            result.played_order[i] = result.correct_order[i]

C5_Witness ==
    \E code \in DOMAIN store :
        /\ DOMAIN store[code].results # {}
        /\ \E k \in DOMAIN store[code].results :
              ~store[code].results[k].is_correct
        /\ \A s \in Sessions : room[s] = code /\ reveal[s] # NoReveal

\* C7: a submission that names a player more often than the cards that player
\* holds ends with a reported validation error.
C7_IndexPastIsValidationError ==
    (/\ last.op = "submit"
     /\ UniqueNames(LastGame.players)
     /\ \E n \in Range(last.sel) :
           Occurrences(last.sel, n, Len(last.sel)) >
              Len(LastGame.cards_per_round[str(LastGame.current_round)][n]))
    => last.outcome = "validation_error"

\* C8: no game with a duplicate player name is ever stored.
C8_NoDuplicateNamesStored ==
    \A code \in DOMAIN store : UniqueNames(store[code].players)

\* C9: a reveal state created by a submission starts at index 0; reveal-next
\* is enabled only below len(correct_order) and raises the index by exactly 1,
\* nothing else moves the index, so after len(correct_order) reveal-next steps
\* the state is terminal and reveal-next is no longer possible; continue is
\* possible only in the terminal state.
C9_RevealSequencer ==
    /\ [](\A s \in Sessions :
            reveal[s] # NoReveal =>
              LET index == reveal[s][1].current_card
                  length == Len(reveal[s][1].correct_order)
              IN  /\ index \in 0..length
                  /\ (ENABLED RevealNext(s)) => index < length
                  /\ index = length => ~ENABLED RevealNext(s)
                  /\ (ENABLED Continue(s)) => index = length)
    /\ [][\A s \in Sessions :
            /\ (reveal[s] = NoReveal /\ reveal'[s] # NoReveal) =>
                  /\ last'.op = "submit"
                  /\ reveal'[s][1].current_card = 0
            /\ (reveal[s] # NoReveal /\ reveal'[s] # NoReveal
                    /\ reveal'[s] # reveal[s]) =>
                  last'.op = "reveal" /\ last'.s = s
            /\ (last'.op = "reveal" /\ last'.s = s) =>
                  /\ reveal[s] # NoReveal
                  /\ reveal[s][1].current_card < Len(reveal[s][1].correct_order)
                  /\ reveal'[s] =
                        <<[reveal[s][1] EXCEPT !.current_card = @ + 1]>>
            /\ (last'.op = "continue" /\ last'.s = s) =>
                  /\ reveal[s] # NoReveal
                  /\ reveal[s][1].current_card = Len(reveal[s][1].correct_order)
                  /\ reveal'[s] = NoReveal]_vars

C9_Witness ==
    /\ last.op = "reveal"
    /\ reveal[last.s] # NoReveal
    /\ reveal[last.s][1].current_card = 2
    /\ Len(reveal[last.s][1].correct_order) = 2

\* C10: a submission while a reveal is in progress overwrites the stored
\* result and restarts the reveal: index 0, played_order and is_correct of the
\* new submission.
C10_ResubmitRestartsReveal ==
    (last.op = "submit" /\ last.outcome = "ok") =>
    LET result == LastGame.results[str(LastGame.current_round)]
    IN  /\ reveal[last.s] # NoReveal
        /\ reveal[last.s][1].current_card = 0
        /\ reveal[last.s][1].played_order = result.played_order
        /\ reveal[last.s][1].is_correct = result.is_correct

\* C11: whenever the reveal of a session is terminal, the success it reports
\* is the is_correct of the result stored for that round, and the match count
\* it reports is the number of positions where the stored played_order agrees
\* with the stored correct_order.
C11_TerminalSummaryIsStoredResult ==
    \A s \in Sessions :
        (/\ reveal[s] # NoReveal
         /\ reveal[s][1].current_card = Len(reveal[s][1].correct_order)
         /\ room[s] \in DOMAIN store
         /\ str(reveal[s][1].round) \in DOMAIN store[room[s]].results)
        => LET result == store[room[s]].results[str(reveal[s][1].round)]
               summary == final_summary(reveal[s][1])
           IN  /\ summary.success = result.is_correct
               /\ summary.correct_count =
                     Cardinality({i \in 1..Len(result.correct_order) :
                                    /\ i <= Len(result.played_order)
                                    /\ result.played_order[i] =
                                           result.correct_order[i]})

\* C12: continue acts in the terminal reveal state only; below max_rounds it
\* raises current_round by one and sets status waiting, at max_rounds it sets
\* status finished and leaves current_round; it discards the session's reveal
\* state and leaves players, max_rounds, cards_per_round and results as they
\* were.
C12_ContinueAdvances ==
    [][\A s \in Sessions :
          (last'.op = "continue" /\ last'.s = s) =>
            LET game == store[room[s]]
                after == store'[room[s]]
            IN  /\ reveal[s] # NoReveal
                /\ reveal[s][1].current_card =
                       Len(reveal[s][1].correct_order)
                /\ game.current_round < game.max_rounds =>
                      /\ after.current_round = game.current_round + 1
                      /\ after.status = "waiting"
                /\ game.current_round = game.max_rounds =>
                      /\ after.current_round = game.current_round
                      /\ after.status = "finished"
                /\ game.current_round <= game.max_rounds
                /\ reveal'[s] = NoReveal
                /\ after.players = game.players
                /\ after.max_rounds = game.max_rounds
                /\ after.cards_per_round = game.cards_per_round
                /\ after.results = game.results
                /\ after.room_code = game.room_code
                /\ DOMAIN store' = DOMAIN store]_vars

C12_Witness ==
    /\ last.op = "continue"
    /\ LastGame.status = "waiting"
    /\ LastGame.current_round = 2
    /\ LastGame.max_rounds = 2
    /\ "1" \in DOMAIN LastGame.results
    /\ reveal[last.s] = NoReveal

\* C13: restart is possible in every status of the room; it sets
\* current_round 1, status waiting, cards_per_round and results empty, keeps
\* room_code, players, max_rounds and created_at, and discards the reveal
\* state of the restarting session.
C13_RestartResets ==
    /\ [](\A s \in Sessions : InRoom(s) => ENABLED Restart(s))
    /\ [][\A s \in Sessions :
            (last'.op = "restart" /\ last'.s = s) =>
              LET game == store[room[s]]
                  after == store'[room[s]]
              IN  /\ after.current_round = 1
                  /\ after.status = "waiting"
                  /\ after.cards_per_round = EmptyDict
                  /\ after.results = EmptyDict
                  /\ after.room_code = game.room_code
                  /\ after.players = game.players
                  /\ after.max_rounds = game.max_rounds
                  /\ after.created_at = game.created_at
                  /\ reveal'[s] = NoReveal
                  /\ DOMAIN store' = DOMAIN store]_vars

C13_Witness ==
    /\ last.op = "restart"
    /\ LastGame.status = "waiting"
    /\ LastGame.current_round = 1
    /\ LastGame.max_rounds = 2
    /\ LastGame.cards_per_round = EmptyDict
    /\ reveal[last.s] = NoReveal

\* C14: in every persisted state a finished room has current_round equal to
\* max_rounds and a result stored for round max_rounds.
C14_FinishedHasLastResult ==
    \A code \in DOMAIN store :
        store[code].status = "finished" =>
            /\ store[code].current_round = store[code].max_rounds
            /\ str(store[code].max_rounds) \in DOMAIN store[code].results

\* C19: whenever continue changes the persisted record, a result is stored in
\* that record for the round that is left, also when several admin sessions
\* act on the room and one of them restarts the game.
C19_ContinueOnlyAfterResult ==
    (last.op = "continue" /\ room[last.s] \in DOMAIN store) =>
        LET left_round == IF LastGame.status = "finished"
                          THEN LastGame.current_round
                          ELSE LastGame.current_round - 1
        IN  str(left_round) \in DOMAIN LastGame.results

\* the key of cards_per_round and results is a round number up to n
RoundKey(k, n) == \E r \in 1..n : k = str(r)

\* C15: in every persisted state of a room, cards_per_round has an entry for
\* round r only if r <= current_round, and results has an entry for round r
\* only if cards_per_round has one.
C15_EntriesWithinRounds ==
    \A code \in DOMAIN store :
        LET game == store[code]
        IN  /\ \A k \in DOMAIN game.cards_per_round :
                  RoundKey(k, game.current_round)
            /\ \A k \in DOMAIN game.results :
                  k \in DOMAIN game.cards_per_round

C15_Witness ==
    \E code \in DOMAIN store :
        /\ store[code].current_round = 2
        /\ DOMAIN store[code].cards_per_round = {"1"}
        /\ DOMAIN store[code].results = {"1"}
        /\ \A s \in Sessions : room[s] = code

\* the hands stored for every round of every room are the same after the step
HandsKept ==
    \A code \in DOMAIN store :
        \A k \in DOMAIN store[code].cards_per_round :
            /\ code \in DOMAIN store'
            /\ k \in DOMAIN store'[code].cards_per_round
            /\ store'[code].cards_per_round[k] = store[code].cards_per_round[k]

\* the step saves the games that the acting session loaded while no other
\* session has written since that load
FreshSave == loaded[last'.s] = store

\* C16 as stated: no distribute, submit, reveal or continue step of any
\* session, under any interleaving, changes hands that are stored.
C16_HandsNeverReplaced ==
    [][last'.op \in {"distribute", "submit", "reveal", "continue"}
          => HandsKept]_vars

\* C16: a distribute, submit, reveal or continue step whose loaded games are
\* still the stored ones never changes hands that are stored.
C16_HandsKeptByFreshSaves ==
    [][(last'.op \in {"distribute", "submit", "reveal", "continue"}
          /\ FreshSave) => HandsKept]_vars

C16_Witness ==
    /\ last.op = "continue"
    /\ last.s = "s2"
    /\ room["s1"] = room["s2"]
    /\ LastGame.current_round = 2
    /\ "1" \in DOMAIN LastGame.cards_per_round
    /\ reveal["s1"] # NoReveal

\* the rooms other than the keep-out set are stored after the step as before
OtherRoomsKept(target) ==
    \A b \in DOMAIN store \ target :
        b \in DOMAIN store' /\ store'[b] = store[b]

\* what C17 says of a step: a creation leaves every stored room as it is and
\* commits under a new code, a handler of room A leaves every other room
RoomsIsolated ==
    /\ last'.op = "create" =>
          /\ OtherRoomsKept({})
          /\ DOMAIN store' # DOMAIN store
    /\ last'.op \in {"distribute", "restart", "submit", "continue"} =>
          OtherRoomsKept({room[last'.s]})

RoundInRange ==
    \A code \in DOMAIN store :
        /\ 1 <= store[code].current_round
        /\ store[code].current_round <= store[code].max_rounds

\* no stored room has a smaller current_round after the step
RoundsNotLowered ==
    \A code \in DOMAIN store :
        code \in DOMAIN store' =>
            store'[code].current_round >= store[code].current_round

\* C18 as stated: 1 <= current_round <= max_rounds always, and no step of a
\* room's handlers other than restart lowers current_round, under any
\* interleaving of the sessions.
C18_RoundNeverDecreases ==
    /\ []RoundInRange
    /\ [][last'.op \in {"distribute", "submit", "reveal", "continue"}
            => RoundsNotLowered]_vars

\* C18: 1 <= current_round <= max_rounds always, and a step other than
\* restart whose loaded games are still the stored ones never lowers
\* current_round.
C18_RoundKeptByFreshSaves ==
    /\ []RoundInRange
    /\ [][(last'.op # "restart" /\ FreshSave) => RoundsNotLowered]_vars

C18_Witness ==
    /\ last.op = "submit"
    /\ last.outcome = "ok"
    /\ LastGame.current_round = 1
    /\ LastGame.max_rounds = 2
    /\ LastGame.status = "playing"
    /\ \A s \in Sessions : room[s] = room[last.s] /\ reveal[s] # NoReveal

\* C20: a failed write leaves no session state ahead of the store: after a
\* failed submit the session's reveal state, if any, is that of a result
\* stored for its round, and after a failed continue the reveal state is not
\* gone while the stored room is still playing.
C20_NoStateAheadOfStore ==
    LET s == last.s
    IN  /\ (last.op = "submit" /\ last.outcome = "store_error"
                /\ reveal[s] # NoReveal) =>
              /\ room[s] \in DOMAIN store
              /\ str(reveal[s][1].round) \in DOMAIN store[room[s]].results
              /\ store[room[s]].results[str(reveal[s][1].round)].played_order
                    = reveal[s][1].played_order
        /\ (last.op = "continue" /\ last.outcome = "store_error") =>
              ~(/\ reveal[s] = NoReveal
                /\ room[s] \in DOMAIN store
                /\ store[room[s]].status = "playing")

\* the hands of the round being played are stored and complete: every player
\* of the game has a hand of current_round cards, which the player view shows
HandsOfRound(game) ==
    LET k == str(game.current_round)
    IN  /\ k \in DOMAIN game.cards_per_round
        /\ DOMAIN game.cards_per_round[k] = Range(game.players)
        /\ \A p \in Range(game.players) :
              /\ Len(game.cards_per_round[k][p]) = game.current_round
              /\ player_cards(game, p) # <<>>
              /\ Len(player_cards(game, p)[1]) = game.current_round

\* C21: in every persisted state, a room with unique player names whose status
\* is playing has hands stored for current_round that give every player
\* exactly current_round cards; the player view finds them, and a submission
\* in the games a session has loaded never misses the hands of its round.
C21_PlayingHasHands ==
    /\ \A code \in DOMAIN store :
          (store[code].status = "playing" /\ UniqueNames(store[code].players))
          => HandsOfRound(store[code])
    /\ \A s \in Sessions :
          (/\ InRoom(s)
           /\ loaded[s][room[s]].status = "playing"
           /\ UniqueNames(loaded[s][room[s]].players))
          => /\ HandsOfRound(loaded[s][room[s]])
             /\ \A player_selections \in Selections(loaded[s][room[s]]) :
                   ResolveFault(loaded[s][room[s]], player_selections)
                       # "KeyError"

C21_Witness ==
    /\ last.op = "distribute"
    /\ last.outcome = "ok"
    /\ LastGame.status = "playing"
    /\ UniqueNames(LastGame.players)
    /\ DOMAIN LastGame.results = {}
    /\ \E s \in Sessions : s # last.s /\ room[s] = room[last.s]
                             /\ reveal[s] # NoReveal

\* the session administers a room with unique player names whose rounds the
\* pool can all supply
PlayableRoom(s) ==
    /\ room[s] \in DOMAIN store
    /\ UniqueNames(store[room[s]].players)
    /\ Len(store[room[s]].players) * store[room[s]].max_rounds
           <= CardHi - CardLo + 1

\* the room of the session is finished with a result stored for every round
FinishedWithResults(s) ==
    /\ room[s] \in DOMAIN store
    /\ store[room[s]].status = "finished"
    /\ \A r \in 1..store[room[s]].max_rounds :
          str(r) \in DOMAIN store[room[s]].results

====
